---- MODULE Spec2Model ----
(***************************************************************************)
(* A model of airflow.sdk.log (task-sdk/src/airflow/sdk/log.py): the       *)
(* process-wide logging configuration (configure_logging, reset_logging,   *)
(* the warnings bridge), the remote upload handoff (load_remote_log_handler*)
(* and upload_to_remote) and the event-record processors (redact_jwt, the  *)
(* exception-group processor, the JSON renderers).                         *)
(***************************************************************************)
EXTENDS Integers, Sequences, FiniteSets, TLC

VARIABLES
    warnings_showwarning,   \* warnings.showwarning, the process-wide display function
    _warnings_showwarning,  \* the module global of line 369
    configure_cache,        \* the keys functools.cache holds for configure_logging
    structlog_config,       \* what structlog.configure last installed
    logging_config,         \* what logging.config.dictConfig last installed
    PYTEST_CURRENT_TEST,    \* whether the variable is in os.environ
    original_showwarning,   \* warnings.showwarning at process start (never assigned)
    handler,                \* the handler the last upload_to_remote located
    last,                   \* the last call made and how it ended
    event_dict,             \* the event record a processor is applied to
    input_dict,             \* the record before the last processor ran
    active_error,           \* what sys.exc_info() reports
    hasattr_builtins,       \* hasattr(__builtins__, "BaseExceptionGroup") in this module
    rendered,               \* the last rendered JSON line, as its ordered key/value pairs
    effects,                \* what the last call did to its collaborators, in order
    fs,                     \* the file system below the root, per path
    threads                 \* where each thread is in configure_logging or reset_logging

config_vars == <<warnings_showwarning, _warnings_showwarning, configure_cache,
                 structlog_config, logging_config, PYTEST_CURRENT_TEST,
                 original_showwarning, handler, last>>
record_vars == <<event_dict, input_dict, active_error, hasattr_builtins, rendered>>
file_vars == <<fs, threads>>
vars == <<config_vars, record_vars, effects, file_vars>>
\* What the processors and renderers leave alone.
globals_frame == <<warnings_showwarning, _warnings_showwarning, configure_cache,
                   structlog_config, logging_config, PYTEST_CURRENT_TEST,
                   original_showwarning, handler, effects, file_vars>>

None == "None"

----------------------------------------------------------------------------
(* configure_logging's arguments.  A call is the set of parameters it      *)
(* passes and the value of every parameter (the default where not passed): *)
(* functools.cache keys on the arguments as passed, so configure_logging() *)
(* and configure_logging(enable_pretty_log=True) are different keys.       *)

Call(passed, pretty, level, output, cache_first, supervisor) ==
    [passed |-> passed,
     enable_pretty_log |-> pretty,
     log_level |-> level,
     output |-> output,
     cache_logger_on_first_use |-> cache_first,
     sending_to_supervisor |-> supervisor]

\* configure_logging(): every default of lines 231-235.
DefaultCall == Call({}, TRUE, "DEBUG", None, TRUE, FALSE)

\* The calls made.  Outputs: None, a binary stream, a text stream with a .buffer
\* ("text"), a text stream without one.  Levels: two that structlog and logging
\* both know, one only structlog knows ("exception"), one neither knows.
Calls ==
    { DefaultCall,
      Call({"enable_pretty_log"}, TRUE, "DEBUG", None, TRUE, FALSE),
      Call({"enable_pretty_log", "output", "sending_to_supervisor"},
           FALSE, "DEBUG", "binary", TRUE, TRUE),
      Call({"enable_pretty_log", "log_level", "output", "cache_logger_on_first_use"},
           FALSE, "INFO", "text", FALSE, FALSE),
      Call({"enable_pretty_log", "output"}, FALSE, "DEBUG", "text_nobuffer", TRUE, FALSE),
      Call({"log_level"}, TRUE, "EXCEPTION", None, TRUE, FALSE),
      Call({"log_level"}, TRUE, "BOGUS", None, TRUE, FALSE) }

\* structlog.stdlib.NAME_TO_LEVEL[log_level.lower()], line 238; -1 stands for KeyError.
NAME_TO_LEVEL(level) ==
    CASE level = "DEBUG" -> 10
      [] level = "INFO" -> 20
      [] level = "EXCEPTION" -> 40
      [] OTHER -> -1

\* logging's own level check, reached through dictConfig (lines 336, 341, 354).
StdlibKnowsLevel(level) == level \in {"DEBUG", "INFO"}

----------------------------------------------------------------------------
(* The process-wide state configure_logging and reset_logging work on.     *)

Globals ==
    [showwarning |-> warnings_showwarning,
     saved |-> _warnings_showwarning,
     cache |-> configure_cache,
     structlog |-> structlog_config,
     logging |-> logging_config]

\* The logger factory of lines 272-276 (pretty) and 285-301 (structured).
LoggerFactory(c) ==
    IF c.enable_pretty_log
    THEN IF c.output # None
         THEN <<"WriteLoggerFactory", "TextIOWrapper", c.output>>
         ELSE <<"WriteLoggerFactory", "plain", None>>
    ELSE IF c.output \in {"text", "text_nobuffer"}
         THEN <<"BytesLoggerFactory", "buffer", c.output>>
         ELSE <<"BytesLoggerFactory", "plain", c.output>>

\* structlog.configure without the override of lines 258-259.
StructlogConfigAsPassed(c, pytest) ==
    [pretty |-> c.enable_pretty_log,
     level |-> NAME_TO_LEVEL(c.log_level),
     cache_logger_on_first_use |-> c.cache_logger_on_first_use,
     logger_factory |-> LoggerFactory(c)]

\* The arguments of structlog.configure, lines 258-259, 277-282 and 296-301.
StructlogConfig(c, pytest) ==
    [pretty |-> c.enable_pretty_log,
     level |-> NAME_TO_LEVEL(c.log_level),
     cache_logger_on_first_use |-> IF pytest THEN FALSE ELSE c.cache_logger_on_first_use,
     logger_factory |-> LoggerFactory(c)]

\* The dictionary handed to dictConfig, lines 316-360.
LoggingConfig(c) ==
    [by |-> "airflow.sdk.log",
     formatter |-> IF c.enable_pretty_log THEN "colored" ELSE "plain",
     root_handler |-> IF c.sending_to_supervisor THEN "to_supervisor" ELSE "default",
     level |-> c.log_level,
     stream |-> IF ~c.enable_pretty_log /\ c.output \in {"text", "text_nobuffer"}
                THEN <<"buffer", c.output>> ELSE <<"plain", c.output>>]

\* What airflow.logging_config.configure_logging leaves behind.
AirflowLoggingConfig ==
    [by |-> "airflow.logging_config", formatter |-> "airflow",
     root_handler |-> "airflow", level |-> "airflow", stream |-> <<"plain", None>>]

\* The state of logging before anything configured it.
UnconfiguredLogging ==
    [by |-> None, formatter |-> None, root_handler |-> None, level |-> None,
     stream |-> <<"plain", None>>]

UnconfiguredStructlog ==
    [pretty |-> TRUE, level |-> 0, cache_logger_on_first_use |-> FALSE,
     logger_factory |-> <<"PrintLoggerFactory", "plain", None>>]

\* The warnings bridge of lines 309-314.
InstallWarningsBridge(g) ==
    IF g.saved = None
    THEN [g EXCEPT !.saved = g.showwarning, !.showwarning = "_showwarning"]
    ELSE g

\* The body of configure_logging, lines 238-360: the new globals, the exception
\* that ended it (None when it returned).
ConfigureBody(g, c, pytest) ==
    IF NAME_TO_LEVEL(c.log_level) = -1
    THEN [g |-> g, exc |-> "KeyError"]
    ELSE IF ~c.enable_pretty_log /\ c.output = "text_nobuffer"
    THEN [g |-> g, exc |-> "ValueError"]
    ELSE LET g1 == [g EXCEPT !.structlog = StructlogConfig(c, pytest)]
             g2 == InstallWarningsBridge(g1)
         IN  IF StdlibKnowsLevel(c.log_level)
             THEN [g |-> [g2 EXCEPT !.logging = LoggingConfig(c)], exc |-> None]
             ELSE [g |-> g2, exc |-> "ValueError"]

\* configure_logging without its @cache: every call runs the body.
configure_logging_uncached(g, c, pytest) ==
    LET r == ConfigureBody(g, c, pytest)
    IN  [g |-> r.g, exc |-> r.exc, body |-> TRUE]

\* configure_logging under @cache, lines 229-360: a key the cache holds returns
\* the stored result without running the body; a body that raises stores nothing.
configure_logging_result(g, c, pytest) ==
    IF c \in g.cache
    THEN [g |-> g, exc |-> None, body |-> FALSE]
    ELSE LET r == ConfigureBody(g, c, pytest)
         IN  [g |-> IF r.exc = None
                    THEN [r.g EXCEPT !.cache = r.g.cache \cup {c}]
                    ELSE r.g,
              exc |-> r.exc,
              body |-> TRUE]

\* reset_logging, lines 363-366.
reset_logging_result(g) ==
    [g EXCEPT !.showwarning = g.saved, !.cache = {}]

SetGlobals(g) ==
    /\ warnings_showwarning' = g.showwarning
    /\ _warnings_showwarning' = g.saved
    /\ configure_cache' = g.cache
    /\ structlog_config' = g.structlog
    /\ logging_config' = g.logging

----------------------------------------------------------------------------
(* The remote upload handoff, lines 461-512.                               *)

\* Paths are their components: /logs/dag/run.log is <<"logs", "dag", "run.log">>.
base_log_folder == <<"logs">>

\* The loggers upload_to_remote is given, by what lines 481-490 read of them:
\* whether _logger is truthy and has _file, the file's fileno(), whether it has
\* a name, whether the name is a str, and the name as a path.
LoggerTable ==
    [no_file      |-> [has_file |-> FALSE, fileno |-> 0, has_name |-> FALSE,
                       name_is_str |-> FALSE, name |-> << >>],
     stdout       |-> [has_file |-> TRUE, fileno |-> 1, has_name |-> TRUE,
                       name_is_str |-> TRUE, name |-> <<"<stdout>">>],
     fd_named     |-> [has_file |-> TRUE, fileno |-> 7, has_name |-> TRUE,
                       name_is_str |-> FALSE, name |-> << >>],
     no_name      |-> [has_file |-> TRUE, fileno |-> 8, has_name |-> FALSE,
                       name_is_str |-> FALSE, name |-> << >>],
     in_base      |-> [has_file |-> TRUE, fileno |-> 5, has_name |-> TRUE,
                       name_is_str |-> TRUE, name |-> <<"logs", "dag", "run.log">>],
     outside_base |-> [has_file |-> TRUE, fileno |-> 6, has_name |-> TRUE,
                       name_is_str |-> TRUE, name |-> <<"tmp", "run.log">>]]

Loggers == DOMAIN LoggerTable

\* How airflow.logging_config.configure_logging can end: it returns, it raises
\* before it installed anything, it raises after its dictConfig.
AirflowConfigureOutcomes == {"returns", "raises_before", "raises_after"}

\* What TaskLogReader().log_handler gives: it raises, or a handler of a kind.
LogHandlerOutcomes == {"raises", "FileTaskHandler", "StreamHandler", None}

\* How handler.close() can end.
CloseOutcomes == {"returns", "raises"}

IsPrefix(p, s) == Len(p) <= Len(s) /\ SubSeq(s, 1, Len(p)) = p

\* A relative_to that never refuses a path.
relative_to_unchecked(fname, base) ==
    [ok |-> TRUE, path |-> fname]

\* Path(fname).relative_to(base), line 494: the path below base; << >> with
\* ok FALSE stands for the ValueError of a path not under base.
relative_to(fname, base) ==
    IF IsPrefix(base, fname)
    THEN [ok |-> TRUE, path |-> SubSeq(fname, Len(base) + 1, Len(fname))]
    ELSE [ok |-> FALSE, path |-> << >>]

\* A handler as TaskLogReader hands it over: no attribute set, not closed.
\* closed_with lists, per close() call, the attributes the handler had then.
FreshHandler(kind) ==
    [kind |-> kind, log_meta_dict |-> None, log_relative_path |-> << >>,
     upload_on_close |-> FALSE, closed_with |-> << >>]

NoHandler == FreshHandler("-")

\* load_remote_log_handler, lines 461-471: the new globals, the handler
\* returned, the exception raised, whether the configure_logging() of the
\* finally clause ran its body.
load_remote_log_handler_result(g, pytest, airflow_configure, log_handler) ==
    LET g1 == IF airflow_configure = "raises_before"
              THEN g
              ELSE [g EXCEPT !.logging = AirflowLoggingConfig]
        exc1 == IF airflow_configure # "returns" THEN "AirflowConfigException"
                ELSE IF log_handler = "raises" THEN "AttributeError"
                ELSE None
        fin == configure_logging_result(g1, DefaultCall, pytest)
    IN  [g |-> fin.g,
         exc |-> IF fin.exc # None THEN fin.exc ELSE exc1,
         handler |-> IF exc1 = None /\ fin.exc = None THEN log_handler ELSE "-",
         body |-> fin.body]

----------------------------------------------------------------------------
(* The last call and how it ended.                                         *)

\* What the collaborators do in one call.  A collaborator the call does not
\* reach has "-": the log handler is read only when the external configuration
\* returned, close() is called only on a file-based handler.
External(airflow_configure, log_handler, close) ==
    [airflow_configure |-> airflow_configure, log_handler |-> log_handler, close |-> close]

NoExternal == External("-", "-", "-")

\* The collaborators of one load_remote_log_handler call.
Lookups ==
    { External(a, "-", "-") : a \in AirflowConfigureOutcomes \ {"returns"} }
    \cup { External("returns", h, "-") : h \in LogHandlerOutcomes }

\* The collaborators of one upload_to_remote call that gets to the lookup.
Uploads ==
    { e \in Lookups : e.log_handler # "FileTaskHandler" }
    \cup { External("returns", "FileTaskHandler", c) : c \in CloseOutcomes }

Outcome(op, call, body, exc, logger, lookup, ext) ==
    [op |-> op, call |-> call, body |-> body, exc |-> exc,
     logger |-> logger, lookup |-> lookup, ext |-> ext]

\* One thing a call did: a warning logged, an attribute set, a close, a write,
\* a flush, a directory or a file made; arg is what it was done with.
Effect(do, arg) == [do |-> do, arg |-> arg]

\* PurePath.as_posix(), line 509: the components joined by "/".
RECURSIVE as_posix(_)
as_posix(path) ==
    IF Len(path) <= 1 THEN path
    ELSE <<Head(path), "/">> \o as_posix(Tail(path))

\* A test of line 497 that takes any handler for a file-based one.
isinstance_any(kind) == TRUE

\* isinstance(handler, FileTaskHandler), line 497.
isinstance_FileTaskHandler(kind) == kind = "FileTaskHandler"

\* A mistaken file descriptor in the test of line 490.
SkipsUploadOnStdin(l) == l.fileno = 0 \/ ~l.name_is_str

\* The test of line 490: logging to stdout, or a file whose name is no str.
SkipsUpload(l) == l.fileno = 1 \/ ~l.name_is_str

\* upload_to_remote, lines 474-512.
upload_to_remote_result(g, pytest, logger, meta, ext) ==
    LET l == LoggerTable[logger]
        skip(exc, done) == [g |-> g, handler |-> handler, exc |-> exc,
                            lookup |-> FALSE, body |-> FALSE, effects |-> done]
    IN  IF ~l.has_file THEN skip(None, <<Effect("warning", <<"Unable to find log file">>)>>)
        ELSE IF ~l.has_name THEN skip("AttributeError", << >>)
        ELSE IF SkipsUpload(l) THEN skip(None, << >>)
        ELSE LET rel == relative_to(l.name, base_log_folder)
             IN  IF ~rel.ok THEN skip("ValueError", << >>)
                 ELSE LET r == load_remote_log_handler_result(
                                   g, pytest, ext.airflow_configure, ext.log_handler)
                          h0 == FreshHandler(r.handler)
                          h1 == [h0 EXCEPT !.log_meta_dict = meta,
                                           !.log_relative_path = as_posix(rel.path),
                                           !.upload_on_close = TRUE]
                          h2 == [h1 EXCEPT !.closed_with =
                                     Append(@, <<h1.log_meta_dict, h1.log_relative_path,
                                                 h1.upload_on_close>>)]
                      IN  IF r.exc # None
                          THEN [g |-> r.g, handler |-> handler, exc |-> r.exc,
                                lookup |-> TRUE, body |-> r.body, effects |-> << >>]
                          ELSE IF ~isinstance_FileTaskHandler(r.handler)
                          THEN [g |-> r.g, handler |-> h0, exc |-> None,
                                lookup |-> TRUE, body |-> r.body,
                                effects |-> <<Effect("warning",
                                                     <<"not using a FileTaskHandler">>)>>]
                          ELSE [g |-> r.g, handler |-> h2,
                                exc |-> IF ext.close = "raises" THEN "OSError" ELSE None,
                                lookup |-> TRUE, body |-> r.body,
                                effects |-> <<Effect("setattr", <<"log_meta_dict">>),
                                              Effect("setattr", <<"log_relative_path">>),
                                              Effect("setattr", <<"upload_on_close">>),
                                              Effect("close", << >>)>>]

Metas == {"ti_meta"}

----------------------------------------------------------------------------
(* Event records.  A record is an ordered mapping: the sequence of its     *)
(* fields in insertion order.  A value has a type, its characters or names *)
(* (s) and, for an exception group, the names of its sub-errors (excs).    *)

Value(type, s, excs) == [type |-> type, s |-> s, excs |-> excs]
Str(chars) == Value("str", chars, << >>)
Bytes(chars) == Value("bytes", chars, << >>)
IntValue(digits) == Value("int", digits, << >>)
Bool(b) == Value("bool", <<IF b THEN "True" ELSE "False">>, << >>)
NoneValue == Value("NoneType", << >>, << >>)
Error(name) == Value("error", <<name>>, << >>)
Group(name, excs) == Value("group", <<name>>, excs)
\* The (type, value, traceback) triple of an error; of no error, (None, None, None).
ExcInfo(e) == Value("tuple3", <<e.type>> \o e.s, e.excs)
\* exc_info[1] of such a triple.
Inner(t) == Value(t.s[1], Tail(t.s), t.excs)
\* The list of frame dictionaries format_exception returns, one per error named.
FrameList(names) == Value("list", names, << >>)

Field(k, v) == [k |-> k, v |-> v]

Keys(d) == [i \in DOMAIN d |-> d[i].k]
Has(d, k) == \E i \in DOMAIN d : d[i].k = k
Index(d, k) == CHOOSE i \in DOMAIN d : d[i].k = k
\* d.get(k, None)
Get(d, k) == IF Has(d, k) THEN d[Index(d, k)].v ELSE NoneValue
\* d[k] = v: in place when the key is there, appended when it is not.
Set(d, k, v) == IF Has(d, k) THEN [d EXCEPT ![Index(d, k)].v = v] ELSE Append(d, Field(k, v))
\* del d[k] / d.pop(k, None)
Del(d, k) == SelectSeq(d, LAMBDA f : f.k # k)
\* d.setdefault(k, v)
SetDefault(d, k, v) == IF Has(d, k) THEN d ELSE Append(d, Field(k, v))

\* Python's truth value of a value.
Truthy(v) ==
    CASE v.type = "NoneType" -> FALSE
      [] v.type = "bool" -> v.s = <<"True">>
      [] v.type \in {"str", "bytes", "list"} -> v.s # << >>
      [] v.type = "int" -> v.s # <<"0">>
      [] OTHER -> TRUE

eyJ == <<"e", "y", "J">>
REDACTED == <<"e", "y", "J", "*", "*", "*">>

\* A redaction that keeps no fixed placeholder: the prefix is kept, the rest starred.
redact_jwt_keeping_length(d) ==
    [i \in DOMAIN d |->
        IF d[i].v.type = "str" /\ IsPrefix(eyJ, d[i].v.s)
        THEN Field(d[i].k, Str([j \in DOMAIN d[i].v.s |->
                                   IF j <= Len(eyJ) THEN d[i].v.s[j] ELSE "*"]))
        ELSE d[i]]

\* redact_jwt, lines 92-96.
redact_jwt(d) ==
    [i \in DOMAIN d |->
        IF d[i].v.type = "str" /\ IsPrefix(eyJ, d[i].v.s)
        THEN Field(d[i].k, Str(REDACTED))
        ELSE d[i]]

\* logger_name, lines 86-89.
logger_name(d) ==
    IF Truthy(Get(d, "logger_name"))
    THEN SetDefault(Del(d, "logger_name"), "logger", Get(d, "logger_name"))
    ELSE Del(d, "logger_name")

\* drop_positional_args, lines 99-101.
drop_positional_args(d) == Del(d, "positional_args")

----------------------------------------------------------------------------
(* The exception-group processor, lines 43-83.                             *)

\* format_exception((type(exc), exc, exc.__traceback__)): the frame
\* dictionaries of the error and of the errors it was raised from.
Cause(name) == IF name = "E2" THEN <<"E0">> ELSE << >>
format_exception(name) == <<name>> \o Cause(name)

RECURSIVE chain_from_iterable(_)
\* itertools.chain.from_iterable over the frame lists of the errors named.
chain_from_iterable(names) ==
    IF names = << >> THEN << >>
    ELSE format_exception(Head(names)) \o chain_from_iterable(Tail(names))

\* sys.exc_info(), line 58.
sys_exc_info(active) == IF active = NoneValue THEN ExcInfo(NoneValue) ELSE ExcInfo(active)

\* What the name BaseExceptionGroup is bound to inside _exception_group_tracebacks.
\* The class statement of lines 47-51 makes it a local of the enclosing function:
\* bound to that stub class when the test of line 47 ran the statement, unbound
\* when it did not.
BaseExceptionGroup(has) == IF has THEN "unbound" ELSE "local class"

\* isinstance(v, BaseExceptionGroup), lines 65 and 68: NameError on the unbound
\* name; no value a caller can build is an instance of the local class.
isinstance_group(v, class) ==
    CASE class = "unbound" -> "NameError"
      [] class = "builtins.BaseExceptionGroup" -> IF v.type = "group" THEN "True" ELSE "False"
      [] OTHER -> "False"

\* isinstance(exc_info, tuple) and len(exc_info) == 3, lines 63-64.
IsTuple3(v) == v.type = "tuple3"

\* _exception_group_tracebacks, lines 53-81: the record returned, the exception raised.
exception_group_tracebacks(d, active, has) ==
    LET given == Get(d, "exc_info")
        class == BaseExceptionGroup(has)
        exc_info == IF given = Bool(TRUE)
                    THEN IF sys_exc_info(active) = ExcInfo(NoneValue)
                         THEN NoneValue
                         ELSE sys_exc_info(active)
                    ELSE given
        first == IF IsTuple3(exc_info)
                 THEN isinstance_group(Inner(exc_info), class)
                 ELSE "False"
        second == isinstance_group(exc_info, class)
        group == IF first = "True" THEN Inner(exc_info)
                 ELSE IF second = "True" THEN exc_info
                 ELSE NoneValue
    IN  IF ~Truthy(given) THEN [d |-> d, exc |-> None]
        ELSE IF first = "NameError" \/ (first = "False" /\ second = "NameError")
        THEN [d |-> d, exc |-> "NameError"]
        ELSE IF group = NoneValue THEN [d |-> d, exc |-> None]
        ELSE [d |-> Set(Del(d, "exc_info"), "exception",
                        FrameList(chain_from_iterable(group.excs \o group.s))),
              exc |-> None]

----------------------------------------------------------------------------
(* The processor chains of structured mode and the two JSON renderers.     *)

\* The context variables structlog.contextvars holds when a record is logged.
contextvars == <<Field("dag_id", Str(<<"d">>))>>

\* structlog.processors.MaybeTimeStamper, lines 135 and 252: a timestamp
\* unless the record has one.
timestamper(d) == SetDefault(d, "timestamp", Str(<<"2", "0", "2", "5">>))

RECURSIVE merge_contextvars_from(_, _)
merge_contextvars_from(d, ctx) ==
    IF ctx = << >> THEN d
    ELSE merge_contextvars_from(SetDefault(d, Head(ctx).k, Head(ctx).v), Tail(ctx))

\* structlog.contextvars.merge_contextvars, lines 139 and 253.
merge_contextvars(d) == merge_contextvars_from(d, contextvars)

\* structlog's add_log_level, lines 140 and 250.
add_log_level(d, method_name) == Set(d, "level", Str(method_name))

\* structlog.stdlib.add_logger_name, line 251.
add_logger_name(d) == Set(d, "logger", Str(<<"r", "o", "o", "t">>))

\* structlog.stdlib.PositionalArgumentsFormatter, line 141.
PositionalArgumentsFormatter(d) == Del(d, "positional_args")

\* structlog.processors.StackInfoRenderer, line 144.
StackInfoRenderer(d) ==
    IF Truthy(Get(d, "stack_info"))
    THEN Set(Del(d, "stack_info"), "stack", Str(<<"s">>))
    ELSE Del(d, "stack_info")

\* structlog.processors.ExceptionRenderer(dict_exc_formatter), line 188: exc_info
\* is popped and, when true, rendered as the error's frame dictionaries.
dict_tracebacks(d, active) ==
    LET given == Get(d, "exc_info")
        error == IF given.type = "tuple3" THEN Inner(given)
                 ELSE IF given.type \in {"error", "group"} THEN given
                 ELSE active
    IN  IF Truthy(given)
        THEN Set(Del(d, "exc_info"), "exception",
                 FrameList(IF error = NoneValue THEN << >> ELSE format_exception(error.s[1])))
        ELSE Del(d, "exc_info")

\* structlog.processors.UnicodeDecoder, line 216: bytes values become text.
UnicodeDecoder(d) ==
    [i \in DOMAIN d |-> IF d[i].v.type = "bytes" THEN Field(d[i].k, Str(d[i].v.s)) ELSE d[i]]

\* structlog.stdlib.ProcessorFormatter.remove_processors_meta, lines 262 and 266.
remove_processors_meta(d) == Del(Del(d, "_record"), "_from_structlog")

\* msgspec.json.encode of a mapping: one JSON member per field, in the
\* mapping's order.
json_encode(d) == [i \in DOMAIN d |-> <<d[i].k, d[i].v.type, d[i].v.s>>]

JsonKeys(line) == [i \in DOMAIN line |-> line[i][1]]

FirstKeys == <<"timestamp", "level", "event">>
IsFirstKey(k) == k \in {"timestamp", "level", "event"}

\* The re-ordering of json_dumps left out.
json_dumps_unordered(msg) == json_encode(msg)

\* json_dumps, lines 195-205.
json_dumps(msg) ==
    json_encode(<<Field("timestamp", Get(msg, "timestamp")),
                  Field("level", Get(msg, "level")),
                  Field("event", Get(msg, "event"))>>
                \o SelectSeq(msg, LAMBDA f : ~IsFirstKey(f.k)))

\* json_processor, lines 207-209.
json_processor(d) == json_encode(d)

\* The processors of logging_processors(False) before the renderer, lines
\* 137-145 and 189-191, 213-217, applied in order: the record handed to the
\* JSON renderer, the exception raised on the way.
logging_processors(d, method_name, active, has) ==
    LET d1 == timestamper(d)
        d2 == merge_contextvars(d1)
        d3 == add_log_level(d2, method_name)
        d4 == PositionalArgumentsFormatter(d3)
        d5 == logger_name(d4)
        d6 == redact_jwt(d5)
        d7 == StackInfoRenderer(d6)
        r8 == IF has THEN exception_group_tracebacks(d7, active, has)
                     ELSE [d |-> d7, exc |-> None]
        d9 == dict_tracebacks(r8.d, active)
    IN  [d |-> UnicodeDecoder(d9), exc |-> r8.exc]

\* The event record structlog builds for log.<method>(event, **kw).
BoundLoggerEvent(kw) == Set(kw, "event", Str(<<"h", "i">>))

\* The event record ProcessorFormatter builds for a stdlib LogRecord: the
\* message, the record's bookkeeping, its arguments and its exc_info if any.
ForeignEvent(exc_info) ==
    <<Field("event", Str(<<"h", "i">>)),
      Field("_record", Value("LogRecord", << >>, << >>)),
      Field("_from_structlog", Bool(FALSE)),
      Field("positional_args", Value("tuple", << >>, << >>))>>
    \o IF Truthy(exc_info) THEN <<Field("exc_info", exc_info)>> ELSE << >>

\* The "plain" formatter of lines 321-326 on a stdlib record: pre_chain (lines
\* 247-255, 303-305), then std_lib_formatter (lines 265-268) up to json.
std_lib_formatter(d, method_name, active, has) ==
    LET d1 == add_log_level(d, method_name)
        d2 == add_logger_name(d1)
        d3 == timestamper(d2)
        d4 == merge_contextvars(d3)
        d5 == redact_jwt(d4)
        r6 == IF has THEN exception_group_tracebacks(d5, active, has)
                     ELSE [d |-> d5, exc |-> None]
        d7 == dict_tracebacks(r6.d, active)
    IN  [d |-> drop_positional_args(remove_processors_meta(d7)), exc |-> r6.exc]

----------------------------------------------------------------------------
(* StdBinaryStreamHandler, lines 104-125.                                  *)

\* How self.format(record), stream.write(buffer) and self.flush() can end: they
\* return, or raise RecursionError, another error (TypeError from a formatter,
\* BrokenPipeError from a closed channel) or KeyboardInterrupt, which is a
\* BaseException that is no Exception.
Raised == {"RecursionError", "TypeError", "BrokenPipeError", "KeyboardInterrupt"}

\* An except clause that catches every BaseException.
isinstance_BaseException(e) == e \in Raised

\* What "except Exception" of line 124 catches.
isinstance_Exception(e) == e \in {"RecursionError", "TypeError", "BrokenPipeError"}

\* One character in UTF-8 with errors="backslashreplace", line 115: an ASCII
\* character is one byte, e-acute two, a lone surrogate (not encodable) the six
\* bytes of its escape.
encode_backslashreplace(c) ==
    IF c = "U+DC80" THEN <<"\\", "u", "d", "c", "8", "0">>
    ELSE IF c = "U+00E9" THEN <<"0xC3", "0xA9">>
    ELSE <<c>>

\* bytearray(msg, "utf-8", "backslashreplace"), line 115.
RECURSIVE bytearray(_)
bytearray(msg) ==
    IF msg = << >> THEN << >>
    ELSE encode_backslashreplace(Head(msg)) \o bytearray(Tail(msg))

\* The steps of one emit call; a step the call does not reach has "-".
Emitting(msg, format, write, flush) ==
    [msg |-> msg, format |-> format, write |-> write, flush |-> flush]

Emits(msg) ==
    { Emitting(msg, e, "-", "-") : e \in Raised }
    \cup { Emitting(msg, "returns", e, "-") : e \in Raised }
    \cup { Emitting(msg, "returns", "returns", e) : e \in Raised \cup {"returns"} }

\* The exception the try block of lines 113-121 ends with, None when it ends.
RaisedIn(ext) ==
    IF ext.format # "returns" THEN ext.format
    ELSE IF ext.write # "returns" THEN ext.write
    ELSE IF ext.flush # "returns" THEN ext.flush
    ELSE None

\* StdBinaryStreamHandler.emit, lines 112-125: what reached the stream, the
\* exception the caller sees.  handleError is logging.Handler's: it reports on
\* stderr and returns.
emit_result(ext) ==
    LET buffer == bytearray(ext.msg) \o <<"\n">>
        written == IF ext.format = "returns" /\ ext.write = "returns"
                   THEN <<Effect("write", buffer)>> ELSE << >>
        flushed == IF written # << >> /\ ext.flush = "returns"
                   THEN <<Effect("flush", << >>)>> ELSE << >>
        e == RaisedIn(ext)
    IN  IF e = None THEN [effects |-> written \o flushed, exc |-> None]
        ELSE IF e = "RecursionError" THEN [effects |-> written, exc |-> e]
        ELSE IF isinstance_Exception(e)
        THEN [effects |-> written \o <<Effect("handleError", <<e>>)>>, exc |-> None]
        ELSE [effects |-> written, exc |-> e]

\* The messages self.format(record) returns.
Messages ==
    { << >>, <<"h", "i">>, <<"h", "i", "\n">>, <<"U+DC80">>, <<"h", "U+00E9">> }

----------------------------------------------------------------------------
(* The log file helpers, lines 397-458.  The file system is the process's  *)
(* umask and, per path, what is there: its kind and its permission bits.   *)

\* int(conf.get(..., fallback="0o664"), 8) and int(..., fallback="0o775", 8).
new_file_permissions == 436
new_folder_permissions == 509

\* The relative paths init_log_file is given, as their components.
LocalRelativePaths == { <<"c.log">>, <<"a", "c.log">>, <<"a", "b", "c.log">> }

\* Path(base_log_folder, local_relative_path), line 448.
full_path(local_relative_path) == base_log_folder \o local_relative_path

\* Path.parent and Path.parents.
parent(path) == SubSeq(path, 1, Len(path) - 1)

Prefixes(path) == { SubSeq(path, 1, n) : n \in 0..Len(path) }

Paths == UNION { Prefixes(full_path(l)) : l \in LocalRelativePaths }

Absent == [kind |-> "absent", mode |-> 0]
Entry(kind, mode) == [kind |-> kind, mode |-> mode]

\* Whether the owner may write: bit 0o200.
Writable(e) == (e.mode \div 128) % 2 = 1

\* mode & ~umask, for the umasks 0 and 0o022.
RECURSIVE Masked(_, _)
Masked(mode, bits) ==
    IF bits = << >> THEN mode
    ELSE LET b == Head(bits)
             m == IF (mode \div b) % 2 = 1 THEN mode - b ELSE mode
         IN  Masked(m, Tail(bits))

\* Making an entry below a directory: what os.mkdir and os.open(O_CREAT) need.
MakeIn(f, path, kind, mode) ==
    LET dir == f.tree[parent(path)]
    IN  IF dir.kind = "absent" THEN [fs |-> f, exc |-> "FileNotFoundError"]
        ELSE IF dir.kind # "dir" THEN [fs |-> f, exc |-> "NotADirectoryError"]
        ELSE IF ~Writable(dir) THEN [fs |-> f, exc |-> "PermissionError"]
        ELSE [fs |-> [f EXCEPT !.tree[path] = Entry(kind, Masked(mode, f.umask))],
              exc |-> None]

\* Path.mkdir(mode=mode, exist_ok=True), lines 422-423: a directory that is
\* there is left alone, anything else that is there is FileExistsError.
mkdir(f, path, mode) ==
    IF f.tree[path].kind = "dir" THEN [fs |-> f, exc |-> None]
    ELSE IF f.tree[path].kind # "absent" THEN [fs |-> f, exc |-> "FileExistsError"]
    ELSE MakeIn(f, path, "dir", mode)

\* Path.touch(mode), line 453: what is there gets its times set and keeps its
\* mode; what is not there is created with the mode.
touch(f, path, mode) ==
    IF f.tree[path].kind # "absent" THEN [fs |-> f, exc |-> None]
    ELSE MakeIn(f, path, "file", mode)

\* _prepare_log_folder, lines 397-423: the parents outermost first (the root
\* is the first of them), then the directory; the first failure ends it.
RECURSIVE prepare_log_folder_from(_, _, _, _)
prepare_log_folder_from(f, directory, n, mode) ==
    IF n > Len(directory) THEN [fs |-> f, exc |-> None]
    ELSE LET r == mkdir(f, SubSeq(directory, 1, n), mode)
         IN  IF r.exc # None THEN r
             ELSE prepare_log_folder_from(r.fs, directory, n + 1, mode)

_prepare_log_folder(f, directory, mode) ==
    prepare_log_folder_from(f, directory, 0, mode)

\* OSError and its subclasses, line 454.
isinstance_OSError(e) ==
    e \in {"OSError", "PermissionError", "FileExistsError", "FileNotFoundError",
           "NotADirectoryError"}

\* init_log_file, lines 426-458: the file system afterwards, the exception
\* raised, the path returned (<< >> when it raised), the warnings logged.
init_log_file_result(f, local_relative_path) ==
    LET path == full_path(local_relative_path)
        r == _prepare_log_folder(f, parent(path), new_folder_permissions)
        t == touch(r.fs, path, new_file_permissions)
    IN  IF r.exc # None
        THEN [fs |-> r.fs, exc |-> r.exc, returned |-> << >>, effects |-> << >>]
        ELSE IF t.exc # None /\ isinstance_OSError(t.exc)
        THEN [fs |-> t.fs, exc |-> None, returned |-> path,
              effects |-> <<Effect("warning",
                                   <<"OSError while changing ownership of the log file.",
                                     t.exc>>)>>]
        ELSE [fs |-> t.fs, exc |-> t.exc, returned |-> path, effects |-> << >>]

\* The file systems init_log_file can find: a tree is what is there, everything
\* else is absent; the root is a directory.
Tree(there) ==
    [p \in Paths |-> IF p \in DOMAIN there THEN there[p] ELSE Absent]

Dir == Entry("dir", 493)
ReadOnlyDir == Entry("dir", 365)

Trees ==
    { Tree(<< >> :> Dir),
      Tree(<< >> :> Dir @@ <<"logs">> :> Dir),
      Tree(<< >> :> Dir @@ <<"logs">> :> Dir @@ <<"logs", "a">> :> Dir),
      Tree(<< >> :> Dir @@ <<"logs">> :> ReadOnlyDir),
      Tree(<< >> :> Dir @@ <<"logs">> :> Dir @@ <<"logs", "a">> :> ReadOnlyDir),
      Tree(<< >> :> Dir @@ <<"logs">> :> Dir @@ <<"logs", "a">> :> Entry("file", 420)),
      Tree(<< >> :> Dir @@ <<"logs">> :> Dir @@ <<"logs", "a">> :> Dir
           @@ <<"logs", "a", "c.log">> :> Entry("file", 384)) }

\* The umasks 0 and 0o022, as the bits they clear.
Umasks == { << >>, <<16, 2>> }

----------------------------------------------------------------------------
(* The operations.                                                         *)

configure_logging(c) ==
    LET r == configure_logging_result(Globals, c, PYTEST_CURRENT_TEST)
    IN  /\ SetGlobals(r.g)
        /\ last' = Outcome("configure_logging", c, r.body, r.exc, "-", FALSE, NoExternal)
        /\ effects' = << >>
        /\ UNCHANGED <<PYTEST_CURRENT_TEST, original_showwarning, handler, record_vars,
                       file_vars>>

reset_logging ==
    /\ SetGlobals(reset_logging_result(Globals))
    /\ last' = Outcome("reset_logging", DefaultCall, FALSE, None, "-", FALSE, NoExternal)
    /\ effects' = << >>
    /\ UNCHANGED <<PYTEST_CURRENT_TEST, original_showwarning, handler, record_vars,
                   file_vars>>

load_remote_log_handler(ext) ==
    LET r == load_remote_log_handler_result(
                 Globals, PYTEST_CURRENT_TEST, ext.airflow_configure, ext.log_handler)
    IN  /\ SetGlobals(r.g)
        /\ last' = Outcome("load_remote_log_handler", DefaultCall, r.body, r.exc, "-", TRUE, ext)
        /\ effects' = << >>
        /\ UNCHANGED <<PYTEST_CURRENT_TEST, original_showwarning, handler, record_vars,
                       file_vars>>

\* A call that returns before line 496 reaches no collaborator.
ReachedBy(logger, ext) ==
    upload_to_remote_result(Globals, PYTEST_CURRENT_TEST, logger, None, ext).lookup
        <=> ext # NoExternal

upload_to_remote(logger, meta, ext) ==
    LET r == upload_to_remote_result(Globals, PYTEST_CURRENT_TEST, logger, meta, ext)
    IN  /\ ReachedBy(logger, ext)
        /\ SetGlobals(r.g)
        /\ handler' = r.handler
        /\ last' = Outcome("upload_to_remote", DefaultCall, r.body, r.exc, logger,
                           r.lookup, ext)
        /\ effects' = r.effects
        /\ UNCHANGED <<PYTEST_CURRENT_TEST, original_showwarning, record_vars, file_vars>>

\* logging's normalisation of a log call's exc_info into LogRecord.exc_info.
LogRecordExcInfo(given, active) ==
    IF ~Truthy(given) THEN NoneValue
    ELSE IF given.type \in {"error", "group"} THEN ExcInfo(given)
    ELSE IF given.type = "tuple3" THEN given
    ELSE sys_exc_info(active)

Applied(op, exc) == Outcome(op, DefaultCall, FALSE, exc, "-", FALSE, NoExternal)

\* A processor applied to the record.
apply_redact_jwt ==
    /\ input_dict' = event_dict
    /\ event_dict' = redact_jwt(event_dict)
    /\ last' = Applied("redact_jwt", None)
    /\ rendered' = << >>
    /\ UNCHANGED <<active_error, hasattr_builtins, globals_frame>>

apply_logger_name ==
    /\ input_dict' = event_dict
    /\ event_dict' = logger_name(event_dict)
    /\ last' = Applied("logger_name", None)
    /\ rendered' = << >>
    /\ UNCHANGED <<active_error, hasattr_builtins, globals_frame>>

apply_exception_group_tracebacks ==
    LET r == exception_group_tracebacks(event_dict, active_error, hasattr_builtins)
    IN  /\ input_dict' = event_dict
        /\ event_dict' = r.d
        /\ last' = Applied("exception_group_tracebacks", r.exc)
        /\ rendered' = << >>
        /\ UNCHANGED <<active_error, hasattr_builtins, globals_frame>>

\* A structured-logger call in structured mode: the processors, then
\* JSONRenderer(serializer=json_dumps), lines 211-219.
log_structlog(method_name) ==
    LET r == logging_processors(BoundLoggerEvent(event_dict), method_name,
                                active_error, hasattr_builtins)
    IN  /\ input_dict' = r.d
        /\ rendered' = IF r.exc = None THEN json_dumps(r.d) ELSE << >>
        /\ last' = Applied("log_structlog", r.exc)
        /\ UNCHANGED <<event_dict, active_error, hasattr_builtins, globals_frame>>

\* A stdlib logging call in structured mode: the "plain" formatter, whose last
\* processor is json_processor, lines 306-307.
log_stdlib(method_name) ==
    LET r == std_lib_formatter(
                 ForeignEvent(LogRecordExcInfo(Get(event_dict, "exc_info"), active_error)),
                 method_name, active_error, hasattr_builtins)
    IN  /\ input_dict' = r.d
        /\ rendered' = IF r.exc = None THEN json_processor(r.d) ELSE << >>
        /\ last' = Applied("log_stdlib", r.exc)
        /\ UNCHANGED <<event_dict, active_error, hasattr_builtins, globals_frame>>

\* What the handlers and the file helpers leave alone.
config_frame == <<warnings_showwarning, _warnings_showwarning, configure_cache,
                  structlog_config, logging_config, PYTEST_CURRENT_TEST,
                  original_showwarning, handler>>

emit(ext) ==
    LET r == emit_result(ext)
    IN  /\ effects' = r.effects
        /\ last' = Outcome("emit", DefaultCall, FALSE, r.exc, "-", FALSE, ext)
        /\ UNCHANGED <<config_frame, record_vars, file_vars>>

init_log_file(local_relative_path) ==
    LET r == init_log_file_result(fs, local_relative_path)
    IN  /\ fs' = r.fs
        /\ effects' = r.effects
        /\ last' = Outcome("init_log_file", DefaultCall, FALSE, r.exc, "-", FALSE,
                           [local_relative_path |-> local_relative_path,
                            returned |-> r.returned])
        /\ UNCHANGED <<config_frame, record_vars, threads>>

----------------------------------------------------------------------------
(* configure_logging and reset_logging called on several threads.  Nothing  *)
(* in the module locks: a thread can be suspended between any two reads or  *)
(* writes of the process-wide state, so one step is one such read or write, *)
(* or a run of lines that touches one piece of that state.                  *)

Threads == {"t1", "t2"}

\* A thread outside any call.
Idle == [pc |-> "idle", call |-> DefaultCall, tmp |-> None]

At(t, pc) == threads[t].pc = pc

Goto(t, pc) == threads' = [threads EXCEPT ![t].pc = pc]

\* What a thread's step leaves alone besides the state it names.
thread_frame == <<PYTEST_CURRENT_TEST, original_showwarning, handler, last, effects, fs,
                  record_vars>>

\* The calls the threads make: the default, the supervisor's, one that raises
\* at line 238.
ThreadCalls ==
    { DefaultCall,
      Call({"enable_pretty_log", "output", "sending_to_supervisor"},
           FALSE, "DEBUG", "binary", TRUE, TRUE),
      Call({"log_level"}, TRUE, "BOGUS", None, TRUE, FALSE) }

\* @cache, line 229: a key the cache holds returns at once, any other key
\* enters the body, whether or not another thread is already in it.
configure_logging_call(t, c) ==
    /\ At(t, "idle")
    /\ threads' = [threads EXCEPT ![t] =
                      [pc |-> IF c \in configure_cache THEN "idle" ELSE "238",
                       call |-> c, tmp |-> None]]
    /\ UNCHANGED <<warnings_showwarning, _warnings_showwarning, configure_cache,
                   structlog_config, logging_config, thread_frame>>

\* Lines 238-307: the level lookup, the output check, structlog.configure.
configure_logging_238(t) ==
    LET c == threads[t].call
        raises == \/ NAME_TO_LEVEL(c.log_level) = -1
                  \/ ~c.enable_pretty_log /\ c.output = "text_nobuffer"
    IN  /\ At(t, "238")
        /\ structlog_config' = IF raises THEN structlog_config
                               ELSE StructlogConfig(c, PYTEST_CURRENT_TEST)
        /\ Goto(t, IF raises THEN "idle" ELSE "311")
        /\ UNCHANGED <<warnings_showwarning, _warnings_showwarning, configure_cache,
                       logging_config, thread_frame>>

\* Line 311: if _warnings_showwarning is None.
configure_logging_311(t) ==
    /\ At(t, "311")
    /\ Goto(t, IF _warnings_showwarning = None THEN "312" ELSE "316")
    /\ UNCHANGED <<warnings_showwarning, _warnings_showwarning, configure_cache,
                   structlog_config, logging_config, thread_frame>>

\* Line 312, the read of warnings.showwarning.
configure_logging_312(t) ==
    /\ At(t, "312")
    /\ threads' = [threads EXCEPT ![t].pc = "312_store", ![t].tmp = warnings_showwarning]
    /\ UNCHANGED <<warnings_showwarning, _warnings_showwarning, configure_cache,
                   structlog_config, logging_config, thread_frame>>

\* Line 312, the write of _warnings_showwarning.
configure_logging_312_store(t) ==
    /\ At(t, "312_store")
    /\ _warnings_showwarning' = threads[t].tmp
    /\ Goto(t, "314")
    /\ UNCHANGED <<warnings_showwarning, configure_cache, structlog_config,
                   logging_config, thread_frame>>

\* Line 314: warnings.showwarning = _showwarning.
configure_logging_314(t) ==
    /\ At(t, "314")
    /\ warnings_showwarning' = "_showwarning"
    /\ Goto(t, "316")
    /\ UNCHANGED <<_warnings_showwarning, configure_cache, structlog_config,
                   logging_config, thread_frame>>

\* Lines 316-360: dictConfig, which raises on a level logging does not know.
configure_logging_316(t) ==
    LET c == threads[t].call
    IN  /\ At(t, "316")
        /\ logging_config' = IF StdlibKnowsLevel(c.log_level) THEN LoggingConfig(c)
                             ELSE logging_config
        /\ Goto(t, IF StdlibKnowsLevel(c.log_level) THEN "return" ELSE "idle")
        /\ UNCHANGED <<warnings_showwarning, _warnings_showwarning, configure_cache,
                       structlog_config, thread_frame>>

\* The body returned: @cache stores the key.
configure_logging_return(t) ==
    /\ At(t, "return")
    /\ configure_cache' = configure_cache \cup {threads[t].call}
    /\ Goto(t, "idle")
    /\ UNCHANGED <<warnings_showwarning, _warnings_showwarning, structlog_config,
                   logging_config, thread_frame>>

\* reset_logging is called: line 365, the read of _warnings_showwarning.
reset_logging_365(t) ==
    /\ At(t, "idle")
    /\ threads' = [threads EXCEPT ![t] =
                      [pc |-> "365_store", call |-> DefaultCall,
                       tmp |-> _warnings_showwarning]]
    /\ UNCHANGED <<warnings_showwarning, _warnings_showwarning, configure_cache,
                   structlog_config, logging_config, thread_frame>>

\* Line 365, the write of warnings.showwarning.
reset_logging_365_store(t) ==
    /\ At(t, "365_store")
    /\ warnings_showwarning' = threads[t].tmp
    /\ Goto(t, "366")
    /\ UNCHANGED <<_warnings_showwarning, configure_cache, structlog_config,
                   logging_config, thread_frame>>

\* Line 366: configure_logging.cache_clear().
reset_logging_366(t) ==
    /\ At(t, "366")
    /\ configure_cache' = {}
    /\ Goto(t, "idle")
    /\ UNCHANGED <<warnings_showwarning, _warnings_showwarning, structlog_config,
                   logging_config, thread_frame>>

MethodNames == {<<"i", "n", "f", "o">>, <<"e", "r", "r", "o", "r">>}

\* The fields a caller can put in a record.
MaxFields == 2

TokenValues ==
    { Str(<<"e", "y", "J", "h", "b">>), Str(eyJ), Str(REDACTED),
      Str(<<"e", "y", "j", "h">>), Str(<<"e", "y">>), Str(<<"x", "e", "y", "J">>),
      Bytes(<<"e", "y", "J", "h", "b">>) }

AnError == Error("E1")
AGroup == Group("G", <<"E1", "E2">>)

ExcInfoValues ==
    { Bool(TRUE), Bool(FALSE), AnError, AGroup, ExcInfo(AnError), ExcInfo(AGroup),
      ExcInfo(NoneValue) }

Fields ==
    { Field("token", v) : v \in TokenValues }
    \cup { Field("extra", v) : v \in {Str(<<"x">>), IntValue(<<"7">>)} }
    \cup { Field("exc_info", v) : v \in ExcInfoValues }
    \cup { Field("timestamp", Str(<<"T">>)), Field("logger_name", Str(<<"a", "f">>)) }

DistinctKeys(d) == \A i, j \in DOMAIN d : d[i].k = d[j].k => i = j

EventDicts ==
    { d \in UNION { [1..n -> Fields] : n \in 0..MaxFields } : DistinctKeys(d) }

ActiveErrors == {NoneValue, Error("E2"), AGroup}

\* The display functions warnings.showwarning can be when the module is loaded.
ShowwarningFunctions == {"warnings.showwarning", "pytest.showwarning"}

InitGlobals ==
    /\ warnings_showwarning = original_showwarning
    /\ _warnings_showwarning = None
    /\ configure_cache = {}
    /\ structlog_config = UnconfiguredStructlog
    /\ logging_config = UnconfiguredLogging
    /\ handler = NoHandler
    /\ last = Outcome("-", DefaultCall, FALSE, None, "-", FALSE, NoExternal)
    /\ effects = << >>

InitRecords ==
    /\ event_dict = << >>
    /\ input_dict = << >>
    /\ active_error = None
    /\ hasattr_builtins = FALSE
    /\ rendered = << >>

\* An empty file system below the root, no thread in a call.
InitFiles ==
    /\ fs = [umask |-> << >>, tree |-> Tree(<< >> :> Dir)]
    /\ threads = << >>

Init ==
    /\ original_showwarning \in ShowwarningFunctions
    /\ PYTEST_CURRENT_TEST \in BOOLEAN
    /\ InitGlobals
    /\ InitRecords
    /\ InitFiles

Next ==
    \/ \E c \in Calls : configure_logging(c)
    \/ reset_logging
    \/ \E e \in Lookups : load_remote_log_handler(e)
    \/ \E l \in Loggers, m \in Metas, e \in Uploads \cup {NoExternal} :
          upload_to_remote(l, m, e)

Spec == Init /\ [][Next]_vars

\* The processors and renderers applied to the records a caller can build.
InitLog ==
    /\ hasattr_builtins \in BOOLEAN
    /\ active_error \in ActiveErrors
    /\ event_dict \in EventDicts
    /\ input_dict = event_dict
    /\ rendered = << >>
    /\ original_showwarning = "warnings.showwarning"
    /\ PYTEST_CURRENT_TEST = FALSE
    /\ InitGlobals
    /\ InitFiles

NextLog ==
    \/ apply_redact_jwt
    \/ apply_logger_name
    \/ apply_exception_group_tracebacks
    \/ \E m \in MethodNames : log_structlog(m)
    \/ \E m \in MethodNames : log_stdlib(m)

SpecLog == InitLog /\ [][NextLog]_vars

\* The stream handler and the log file helpers, on the file systems and the
\* streams they can find.
InitStreams ==
    /\ fs \in [umask : Umasks, tree : Trees]
    /\ threads = << >>
    /\ original_showwarning = "warnings.showwarning"
    /\ PYTEST_CURRENT_TEST = FALSE
    /\ InitGlobals
    /\ InitRecords

NextStreams ==
    \/ \E m \in Messages : \E e \in Emits(m) : emit(e)
    \/ \E l \in LocalRelativePaths : init_log_file(l)

SpecStreams == InitStreams /\ [][NextStreams]_vars

\* Two threads, each calling configure_logging and reset_logging over and over.
InitThreads ==
    /\ threads = [t \in Threads |-> Idle]
    /\ fs = [umask |-> << >>, tree |-> Tree(<< >> :> Dir)]
    /\ original_showwarning = "warnings.showwarning"
    /\ PYTEST_CURRENT_TEST = FALSE
    /\ InitGlobals
    /\ InitRecords

NextThreads ==
    \/ \E t \in Threads, c \in ThreadCalls : configure_logging_call(t, c)
    \/ \E t \in Threads : configure_logging_238(t)
    \/ \E t \in Threads : configure_logging_311(t)
    \/ \E t \in Threads : configure_logging_312(t)
    \/ \E t \in Threads : configure_logging_312_store(t)
    \/ \E t \in Threads : configure_logging_314(t)
    \/ \E t \in Threads : configure_logging_316(t)
    \/ \E t \in Threads : configure_logging_return(t)
    \/ \E t \in Threads : reset_logging_365(t)
    \/ \E t \in Threads : reset_logging_365_store(t)
    \/ \E t \in Threads : reset_logging_366(t)

SpecThreads == InitThreads /\ [][NextThreads]_vars

----------------------------------------------------------------------------
(* Configuration, reset and the warnings bridge.                           *)

IsStep(op) == last'.op = op

\* C1: after one or more configure_logging calls followed by reset_logging,
\* warnings.showwarning is the function that was installed before the first
\* configure_logging call.
C1_ResetRestoresOriginalShowwarning ==
    [][last.op = "configure_logging" /\ IsStep("reset_logging")
         => warnings_showwarning' = original_showwarning]_vars

\* C2: once load_remote_log_handler returns or raises, the logging
\* configuration in force is this module's own, the one it had installed, and
\* not the one the external configuration step wrote.
C2_LoadRestoresOwnConfiguration ==
    [][IsStep("load_remote_log_handler")
         => /\ logging_config'.by = "airflow.sdk.log"
            /\ logging_config.by = "airflow.sdk.log" => logging_config' = logging_config]_vars

\* The process-wide state as it is when the module has just been imported.
FreshProcess ==
    /\ warnings_showwarning = original_showwarning
    /\ _warnings_showwarning = None
    /\ configure_cache = {}
    /\ structlog_config = UnconfiguredStructlog
    /\ logging_config = UnconfiguredLogging

\* C3: reset_logging when configure_logging never ran changes nothing, and
\* reset_logging is idempotent: a second reset changes nothing more.
C3_ResetNoOpAndIdempotent ==
    [][IsStep("reset_logging")
         => /\ FreshProcess => UNCHANGED Globals
            /\ reset_logging_result(Globals') = Globals']_vars

\* C4: a configure_logging call whose arguments equal those of an earlier
\* successful call, with no reset_logging in between, changes nothing (no
\* rebuild); after reset_logging no key is kept, so the next call with those
\* arguments runs the body and installs the configuration built from them.
C4_MemoizedUntilReset ==
    [][/\ IsStep("configure_logging") /\ last'.exc = None
            => last'.call \in configure_cache'
       /\ ~IsStep("reset_logging") => configure_cache \subseteq configure_cache'
       /\ IsStep("configure_logging") /\ last'.call \in configure_cache
            => UNCHANGED Globals /\ ~last'.body /\ last'.exc = None
       /\ IsStep("reset_logging") => configure_cache' = {}
       /\ IsStep("configure_logging") /\ last'.call \notin configure_cache
            => /\ last'.body
               /\ last'.exc = None
                    => /\ structlog_config' = StructlogConfig(last'.call, PYTEST_CURRENT_TEST)
                       /\ logging_config' = LoggingConfig(last'.call)]_vars

\* C4's case: a repeated call found the external configuration in force and
\* left it there.
C4_Witness ==
    /\ last.op = "configure_logging"
    /\ ~last.body
    /\ ~PYTEST_CURRENT_TEST
    /\ last.call.cache_logger_on_first_use
    /\ logging_config = AirflowLoggingConfig

\* C5 as stated: with PYTEST_CURRENT_TEST set, the second of two consecutive
\* configure_logging calls with equal arguments rebuilds the configuration.
C5_NoMemoizationUnderPytest ==
    [][/\ PYTEST_CURRENT_TEST
       /\ last.op = "configure_logging" /\ last.exc = None
       /\ IsStep("configure_logging") /\ last'.call = last.call
         => last'.body]_vars

\* C5 as amended: with PYTEST_CURRENT_TEST set, every configuration built has
\* structlog's cache_logger_on_first_use off, whatever was passed; the
\* memoization of configure_logging is still in force.
C5_PytestDisablesLoggerCachingOnly ==
    [][PYTEST_CURRENT_TEST /\ IsStep("configure_logging")
         => /\ last'.call \in configure_cache => ~last'.body /\ UNCHANGED Globals
            /\ last'.body /\ last'.exc = None
                 => ~structlog_config'.cache_logger_on_first_use]_vars

C5_Witness ==
    /\ PYTEST_CURRENT_TEST
    /\ last.op = "configure_logging"
    /\ ~last.body
    /\ last.call.cache_logger_on_first_use
    /\ structlog_config = StructlogConfig(last.call, TRUE)
    /\ ~structlog_config.cache_logger_on_first_use

----------------------------------------------------------------------------
(* The upload handoff.                                                     *)

\* C6 as stated: upload_to_remote returns normally whatever the logger and
\* whatever its collaborators do.
C6_UploadNeverRaises ==
    last.op = "upload_to_remote" => last.exc = None

\* C6 as amended: upload_to_remote raises exactly when the log file is outside
\* the base log directory, the file has no name, the external configuration
\* raises, the handler lookup raises or the handler's close raises; in every
\* other case (no file, fd 1, a name that is no str, a handler that is not
\* file-based, a completed upload) it returns normally.
C6_UploadRaisesOnlyOnTheseFailures ==
    last.op = "upload_to_remote"
      => (last.exc # None
            <=> \/ last.logger \in {"outside_base", "no_name"}
                \/ last.ext.airflow_configure \in {"raises_before", "raises_after"}
                \/ last.ext.log_handler = "raises"
                \/ last.ext.close = "raises")

C6_Witness ==
    /\ last.op = "upload_to_remote"
    /\ last.logger = "outside_base"
    /\ last.exc = "ValueError"
    /\ ~last.lookup

\* C7: upload_to_remote on a logger whose file has descriptor 1 returns with
\* no handler lookup: the external configuration is not triggered,
\* configure_logging is not called again, no handler is touched.
C7_StdoutSkipsLookup ==
    [][IsStep("upload_to_remote") /\ LoggerTable[last'.logger].fileno = 1
         => /\ UNCHANGED <<Globals, handler>>
            /\ ~last'.lookup /\ ~last'.body /\ last'.exc = None]_vars

C7_Witness ==
    /\ last.op = "upload_to_remote"
    /\ last.logger = "stdout"
    /\ logging_config.by = "airflow.sdk.log"
    /\ handler.kind = "FileTaskHandler"

----------------------------------------------------------------------------
(* The JSON wire format and the record processors.                         *)

\* The keys of a record that has timestamp, level and event moved to the front
\* and every other field left in insertion order.
OrderedKeys(d) == FirstKeys \o SelectSeq(Keys(d), LAMBDA k : ~IsFirstKey(k))

Rendered(op) == last.op = op /\ last.exc = None

StartsWith_eyJ(v) ==
    v.type = "str" /\ Len(v.s) >= 3 /\ v.s[1] = "e" /\ v.s[2] = "y" /\ v.s[3] = "J"

\* C9: redact_jwt replaces every string value that starts with "eyJ" by
\* exactly "eyJ***", leaves every other value and the keys as they are, and
\* redacting the redacted record changes nothing.
C9_RedactJwt ==
    last.op = "redact_jwt"
      => /\ Keys(event_dict) = Keys(input_dict)
         /\ \A i \in DOMAIN input_dict :
               event_dict[i].v = IF StartsWith_eyJ(input_dict[i].v)
                                 THEN Str(<<"e", "y", "J", "*", "*", "*">>)
                                 ELSE input_dict[i].v
         /\ redact_jwt(event_dict) = event_dict

\* C9's case: a record with a token longer than the placeholder's prefix, which
\* was redacted, and a value that is no string, which was kept.
C9_Witness ==
    /\ last.op = "redact_jwt"
    /\ \E i \in DOMAIN input_dict :
          /\ input_dict[i].v = Str(<<"e", "y", "J", "h", "b">>)
          /\ event_dict[i].v # input_dict[i].v
    /\ \E i \in DOMAIN input_dict :
          /\ input_dict[i].v.type # "str"
          /\ event_dict[i].v = input_dict[i].v

\* The error a record's exc_info resolves to: True is the active error, a
\* triple its second member.
Resolved(given, active) ==
    IF given = Bool(TRUE) THEN active
    ELSE IF given.type = "tuple3" THEN Inner(given)
    ELSE given

\* C10: for a record whose exc_info resolves to a grouped error the processor
\* removes exc_info and sets exception to the frame lists of the sub-errors and
\* then of the group, in that order; any other record it returns unchanged.
C10_GroupFlattened ==
    last.op = "exception_group_tracebacks"
      => LET given == Get(input_dict, "exc_info")
             error == Resolved(given, active_error)
         IN  /\ last.exc = None
             /\ IF Truthy(given) /\ error.type = "group"
                THEN /\ ~Has(event_dict, "exc_info")
                     /\ Get(event_dict, "exception")
                          = FrameList(chain_from_iterable(error.excs \o error.s))
                ELSE event_dict = input_dict

----------------------------------------------------------------------------
(* The binary stream handler and the log file helpers.                     *)

HandledBy(done, e) == Effect("handleError", <<e>>) \in { done[i] : i \in DOMAIN done }

WrittenOnce(done, msg) ==
    done = <<Effect("write", bytearray(msg) \o <<"\n">>), Effect("flush", << >>)>>

\* C11: in StdBinaryStreamHandler.emit a RecursionError raised while formatting,
\* writing or flushing propagates to the caller; every other exception raised in
\* those steps goes to handleError and does not propagate; when no step raises,
\* exactly one buffer, the encoded message and one appended newline, is written
\* and then flushed.
C11_OnlyRecursionErrorPropagates ==
    [][IsStep("emit")
         => LET e == RaisedIn(last'.ext)
            IN  /\ e = "RecursionError" => last'.exc = "RecursionError"
                /\ e \notin {None, "RecursionError"}
                       => last'.exc = None /\ HandledBy(effects', e)
                /\ e = None => last'.exc = None /\ WrittenOnce(effects', last'.ext.msg)]_vars

\* C11, amended: a RecursionError propagates; every other exception that is an
\* Exception (TypeError, BrokenPipeError) goes to handleError and does not
\* propagate; an exception that is no Exception (KeyboardInterrupt) propagates
\* and handleError is not called; when no step raises, exactly one buffer, the
\* encoded message and one appended newline, is written and then flushed.
C11_ExceptionsHandledOthersPropagate ==
    [][IsStep("emit")
         => LET e == RaisedIn(last'.ext)
            IN  /\ e = "RecursionError"
                       => last'.exc = "RecursionError" /\ ~HandledBy(effects', e)
                /\ e \in {"TypeError", "BrokenPipeError"}
                       => last'.exc = None /\ HandledBy(effects', e)
                /\ e = "KeyboardInterrupt"
                       => last'.exc = "KeyboardInterrupt" /\ ~HandledBy(effects', e)
                /\ e = None => last'.exc = None /\ WrittenOnce(effects', last'.ext.msg)]_vars

\* A write to a broken channel was handled: the caller saw no exception.
C11_Witness ==
    /\ last.op = "emit"
    /\ last.ext.write = "BrokenPipeError"
    /\ last.exc = None
    /\ HandledBy(effects, "BrokenPipeError")

\* C12: when init_log_file cannot create the log file the failure reaches the
\* caller: a call that returns has the file at the path it returns, and a
\* warning is logged only for a file that is there.
C12_CreationFailureReachesCaller ==
    [][IsStep("init_log_file") /\ last'.exc = None
         => fs'.tree[last'.ext.returned].kind = "file"]_vars

----------------------------------------------------------------------------
(* The upload handoff.                                                     *)

Done(done, do) == { i \in DOMAIN done : done[i].do = do }

\* The last upload_to_remote call got a handler from load_remote_log_handler.
Located(l) ==
    /\ l.op = "upload_to_remote"
    /\ l.lookup
    /\ l.ext.airflow_configure = "returns"
    /\ l.ext.log_handler # "raises"

C13_WitnessNotFileBased ==
    /\ Located(last)
    /\ handler.kind = "StreamHandler"
    /\ Done(effects, "warning") # {}

----------------------------------------------------------------------------
(* The warnings bridge under concurrent and repeated calls.                *)

\* C14: under every interleaving of configure_logging and reset_logging calls
\* on different threads, the saved original warning handler is the handler of
\* before the configuration (or nothing is saved yet), never the bridge
\* function itself, so the bridge cannot delegate to itself.
C14_SavedIsTheOriginalHandler ==
    /\ _warnings_showwarning # "_showwarning"
    /\ _warnings_showwarning \in {None, original_showwarning}

\* C15: after any single-threaded sequence of configure_logging and
\* reset_logging calls whose last call is a configure_logging that ran its body
\* (no cache hit) and returned, the warnings bridge is the active
\* warning-display function; so it is after configure, reset, configure.
C15_BridgeActiveAfterConfigure ==
    [][IsStep("configure_logging") /\ last'.body /\ last'.exc = None
         => warnings_showwarning' = "_showwarning"]_vars

====
